---- MODULE Spec2Model ----
(***************************************************************************)
(* Model of keck_tod.py: class KeckTod, which loads one "tag" of Keck      *)
(* Array time-ordered data.  KeckTod(tag, prefix) calls read_tag, which    *)
(* parses the tag name by fixed character offsets, opens the HDF5 file of  *)
(* samples, reads the master index fp_data_master and then one focal-plane *)
(* metadata csv per receiver (read_fp_data), and concatenates the          *)
(* per-receiver tables into self.fp_data.                                  *)
(*                                                                         *)
(* Text is modelled character by character with TLA+ strings (Len, SubSeq  *)
(* and \o act on them).  Floating-point numbers are fixed-point integers   *)
(* in units of 1/Scale; NaN and +-inf are separate values.  A DataFrame is *)
(* a record [n |-> number of rows, col |-> [column name -> Seq(cell)]];    *)
(* its RangeIndex is 1..n here and 0..n-1 in the code.                     *)
(***************************************************************************)
EXTENDS Integers, Sequences, FiniteSets, TLC

VARIABLES
    tag,        \* argument tag of KeckTod(tag, prefix): None or Some(string)
    prefix,     \* argument prefix: None or Some(string)
    fs,         \* the file system: [path -> [kind, lines]]; absent path = no file
    self,       \* the attributes set on the object so far: [name -> value]
    fp_master,  \* local of read_tag: the rows of the master index
    fp_data,    \* local of read_tag: the list of per-receiver tables
    opened,     \* the paths handed to open / h5.File / read_csv, in order
    header,     \* local header of the latest read_fp_data call, -1 before any
    stdout,     \* the lines printed
    pc,         \* position in the constructor
    err         \* the exception that left the constructor, or "none"

vars == <<tag, prefix, fs, self, fp_master, fp_data, opened, header, stdout, pc, err>>

(***************************************************************************)
(* Bounds of the model.                                                    *)
(***************************************************************************)
MaxRx == 2          \* master index: at most this many lines
MaxRows == 2        \* metadata file: at most this many data lines
MaxPre == 2         \* metadata file: at most this many lines before the header
MaxScan == 3        \* header scan: files of at most this many lines

\* Fixed-point unit: a float x is the integer x * Scale (two decimal places).
Scale == 10 * 10

None == [isNone |-> TRUE]
Some(v) == [isNone |-> FALSE, v |-> v]

Min(a, b) == IF a < b THEN a ELSE b

\* LET x == v IN F(x), with v evaluated once.
With(v, F(_)) == CHOOSE r \in {F(x) : x \in {v}} : TRUE

\* The function f, its values computed once instead of at each use.
Eval(f) == f @@ <<>>

(***************************************************************************)
(* Python str operations.                                                  *)
(***************************************************************************)
Digits == {"0", "1", "2", "3", "4", "5", "6", "7", "8", "9"}
Whitespace == {" "}

DigitVal(c) ==
    CASE c = "0" -> 0 [] c = "1" -> 1 [] c = "2" -> 2 [] c = "3" -> 3
      [] c = "4" -> 4 [] c = "5" -> 5 [] c = "6" -> 6 [] c = "7" -> 7
      [] c = "8" -> 8 [] c = "9" -> 9

\* s[i] of Python, 0-based, as a one-character string.
CharAt(s, i) == SubSeq(s, i + 1, i + 1)

\* A slice that would take s[a:b+1].
SliceInclusive(s, a, b) == SubSeq(s, Min(a, Len(s)) + 1, Min(b + 1, Len(s)))

\* s[a:b] for 0 <= a <= b: both ends are clipped to len(s), never an error.
Slice(s, a, b) == SubSeq(s, Min(a, Len(s)) + 1, Min(b, Len(s)))

RECURSIVE LStrip(_)
LStrip(s) ==
    IF Len(s) > 0 /\ SubSeq(s, 1, 1) \in Whitespace THEN LStrip(SubSeq(s, 2, Len(s)))
    ELSE s

RECURSIVE RStrip(_)
RStrip(s) ==
    IF Len(s) > 0 /\ SubSeq(s, Len(s), Len(s)) \in Whitespace
    THEN RStrip(SubSeq(s, 1, Len(s) - 1))
    ELSE s

\* str.strip()
Strip(s) == RStrip(LStrip(s))

\* str.find(sub) from 0-based index i on: the lowest index where sub occurs, or -1.
RECURSIVE FindFrom(_, _, _)
FindFrom(s, sub, i) ==
    IF i + Len(sub) > Len(s) THEN -1
    ELSE IF SubSeq(s, i + 1, i + Len(sub)) = sub THEN i
    ELSE FindFrom(s, sub, i + 1)

\* sub in s
Contains(s, sub) == \E i \in 0..(Len(s) - Len(sub)) : SubSeq(s, i + 1, i + Len(sub)) = sub

Find(s, sub) == IF Contains(s, sub) THEN FindFrom(s, sub, 0) ELSE -1

\* The value of a string of decimal digits ("" is 0).
RECURSIVE DecVal(_)
DecVal(s) ==
    IF Len(s) = 0 THEN 0
    ELSE DecVal(SubSeq(s, 1, Len(s) - 1)) * 10 + DigitVal(SubSeq(s, Len(s), Len(s)))

RECURSIVE RemoveUnderscores(_)
RemoveUnderscores(s) ==
    IF Len(s) = 0 THEN ""
    ELSE (IF SubSeq(s, 1, 1) = "_" THEN "" ELSE SubSeq(s, 1, 1))
         \o RemoveUnderscores(SubSeq(s, 2, Len(s)))

\* The digit part of an integer literal: digits, single underscores between them.
IsIntBody(s) ==
    /\ Len(s) > 0
    /\ \A i \in 1..Len(s) :
          /\ SubSeq(s, i, i) \in Digits \cup {"_"}
          /\ (i \in {1, Len(s)} => SubSeq(s, i, i) # "_")
          /\ (i < Len(s) => SubSeq(s, i, i + 1) # "__")

HasSign(t) == Len(t) > 0 /\ SubSeq(t, 1, 1) \in {"+", "-"}

\* int(s) of a str without surrounding whitespace: one sign is allowed;
\* [ok |-> FALSE] is ValueError.
IntOfStripped(t) ==
    With(IF HasSign(t) THEN SubSeq(t, 2, Len(t)) ELSE t,
         LAMBDA body :
            IF IsIntBody(body)
            THEN [ok |-> TRUE,
                  val |-> (IF HasSign(t) /\ SubSeq(t, 1, 1) = "-" THEN -1 ELSE 1)
                          * DecVal(RemoveUnderscores(body))]
            ELSE [ok |-> FALSE, val |-> 0])

\* int(s): surrounding whitespace is stripped first.
IntOf(s) == IntOfStripped(Strip(s))

\* os.path.join(a, b) on POSIX.
PathJoin(a, b) ==
    IF Len(b) > 0 /\ SubSeq(b, 1, 1) = "/" THEN b
    ELSE IF Len(a) = 0 \/ SubSeq(a, Len(a), Len(a)) = "/" THEN a \o b
    ELSE a \o "/" \o b

(***************************************************************************)
(* Cells of a pandas column.  k is the kind: "int" (int64, v the value),   *)
(* "num" (a finite float64, v in units of 1/Scale), "inf" (v the sign),    *)
(* "nan" (the missing marker) or "str" (a Python str in an object column,  *)
(* s the text).                                                            *)
(***************************************************************************)
NaN == [k |-> "nan", v |-> 0, s |-> ""]
IntCell(n) == [k |-> "int", v |-> n, s |-> ""]
NumCell(x) == [k |-> "num", v |-> x, s |-> ""]
InfCell(sign) == [k |-> "inf", v |-> sign, s |-> ""]
StrCell(t) == [k |-> "str", v |-> 0, s |-> t]

\* The strings pandas.read_csv reads as missing (its default na_values).
NaValues ==
    {"", "#N/A", "#N/A N/A", "#NA", "-1.#IND", "-1.#QNAN", "-NaN", "-nan",
     "1.#IND", "1.#QNAN", "<NA>", "N/A", "NA", "NULL", "NaN", "n/a", "nan", "null"}

InfWords == {"inf", "Inf", "INF", "infinity", "Infinity", "INFINITY"}

AllDigits(t) == \A i \in 1..Len(t) : SubSeq(t, i, i) \in Digits

\* An unsigned decimal: its integer digits ip and, when it has a point (dot >= 0),
\* its fraction digits fr.  Fraction digits past Scale's two are dropped.
ParseDecimal(sgn, dot, ip, fr) ==
    IF AllDigits(ip) /\ AllDigits(fr) /\ Len(ip) + Len(fr) > 0
    THEN IF dot < 0
         THEN [ok |-> TRUE, cell |-> IntCell(sgn * DecVal(ip))]
         ELSE [ok |-> TRUE,
               cell |-> NumCell(sgn * (DecVal(ip) * Scale + DecVal(Slice(fr \o "00", 0, 2))))]
    ELSE [ok |-> FALSE, cell |-> NaN]

ParseUnsigned(sgn, body, dot) ==
    IF body \in InfWords THEN [ok |-> TRUE, cell |-> InfCell(sgn)]
    ELSE IF dot < 0 THEN ParseDecimal(sgn, dot, body, "")
    ELSE ParseDecimal(sgn, dot, Slice(body, 0, dot), Slice(body, dot + 1, Len(body)))

ParseStripped(sgn, body) == ParseUnsigned(sgn, body, Find(body, "."))

\* The number a text field denotes to pandas' numeric parser: an optionally
\* signed decimal with an optional fraction, or an infinity; whitespace around
\* it is ignored.  ok = FALSE: the text is no number.  Exponents are not part of
\* the input alphabet.
ParseNumber(t) ==
    With(Strip(t),
         LAMBDA u : IF HasSign(u)
                    THEN ParseStripped(IF SubSeq(u, 1, 1) = "-" THEN -1 ELSE 1,
                                       SubSeq(u, 2, Len(u)))
                    ELSE ParseStripped(1, u))

\* A cell as float64: int64 widens.
AsFloat(c) == IF c.k = "int" THEN NumCell(c.v * Scale) ELSE c

\* str(n) of a natural number.
RECURSIVE NatToStr(_)
NatToStr(n) ==
    IF n < 10 THEN SubSeq("0123456789", n + 1, n + 1)
    ELSE NatToStr(n \div 10) \o SubSeq("0123456789", (n % 10) + 1, (n % 10) + 1)

\* str(x) of a finite float of magnitude a (in units of 1/Scale): "7.0", "7.5", "0.25".
FloatDigits(a) ==
    NatToStr(a \div Scale) \o "."
    \o (IF a % 10 = 0 THEN NatToStr((a % Scale) \div 10)
        ELSE NatToStr((a % Scale) \div 10) \o NatToStr(a % 10))

\* str(x) of a cell, as Series.astype(str) writes it.
CellToStr(c) ==
    CASE c.k = "str" -> c.s
      [] c.k = "nan" -> "nan"
      [] c.k = "inf" -> (IF c.v < 0 THEN "-inf" ELSE "inf")
      [] c.k = "int" -> (IF c.v < 0 THEN "-" \o NatToStr(-c.v) ELSE NatToStr(c.v))
      [] c.k = "num" -> (IF c.v < 0 THEN "-" \o FloatDigits(-c.v) ELSE FloatDigits(c.v))

(***************************************************************************)
(* pandas.read_csv on the lines of a file.  Fields are split at ",";       *)
(* quoting is not part of the input alphabet.                              *)
(***************************************************************************)
RECURSIVE SplitAt(_, _, _)
SplitAt(t, sep, p) ==
    IF p < 0 THEN <<t>>
    ELSE <<SubSeq(t, 1, p)>>
         \o With(SubSeq(t, p + 2, Len(t)), LAMBDA rest : SplitAt(rest, sep, Find(rest, sep)))

\* t.split(sep) for a one-character sep.
Split(t, sep) == SplitAt(t, sep, Find(t, sep))

\* skip_blank_lines: a line of nothing but whitespace is no row.
IsBlank(line) == Strip(line) = ""

\* The rows read_csv tokenizes, from (1-based) line i on: skiprows counts lines
\* of the file, and blank lines are dropped.
RECURSIVE KeptRows(_, _, _)
KeptRows(lines, skip, i) ==
    IF i > Len(lines) THEN <<>>
    ELSE (IF (i - 1) \notin skip /\ ~IsBlank(lines[i]) THEN <<lines[i]>> ELSE <<>>)
         \o KeptRows(lines, skip, i + 1)

\* The column of cells for raw fields with parse results P: int64 when every
\* field is an integer, float64 when every field is a number or missing,
\* object otherwise (and for a column of no rows).  Missing fields are NaN.
TypedColumn(raw, P, allInt, allNum) ==
    Eval([i \in DOMAIN raw |->
            IF raw[i] \in NaValues THEN NaN
            ELSE IF allInt /\ Len(raw) > 0 THEN P[i].cell
            ELSE IF allNum /\ Len(raw) > 0 THEN AsFloat(P[i].cell)
            ELSE StrCell(raw[i])])

InferParsed(raw, P) ==
    TypedColumn(raw, P,
                \A i \in DOMAIN raw : raw[i] \notin NaValues /\ P[i].ok /\ P[i].cell.k = "int",
                \A i \in DOMAIN raw : raw[i] \in NaValues \/ P[i].ok)

\* Type inference of one column from its raw fields.
InferColumn(raw) == InferParsed(raw, Eval([i \in DOMAIN raw |-> ParseNumber(raw[i])]))

\* dtype object: what the .str accessor requires.
IsObjectColumn(c) == Len(c) = 0 \/ \E i \in DOMAIN c : c[i].k = "str"

\* The table of raw fields under header row names, for rows of width w: a
\* longer row is a ParserError, a shorter one is padded with missing fields,
\* and the fields a row of width w has before the named ones are its index.
RawTableOfWidth(names, fields, w) ==
    IF \E r \in DOMAIN fields : Len(fields[r]) > w
    THEN [ok |-> FALSE, err |-> "ParserError"]
    ELSE [ok |-> TRUE, err |-> "none", names |-> names, n |-> Len(fields),
          raw |-> Eval([j \in DOMAIN names |->
                          Eval([r \in DOMAIN fields |->
                                  IF (w - Len(names)) + j <= Len(fields[r])
                                  THEN fields[r][(w - Len(names)) + j]
                                  ELSE ""])])]

\* The width is that of the header row, or of the first data row if wider.
RawTable(names, fields) ==
    RawTableOfWidth(names, fields,
                    IF Len(fields) > 0 /\ Len(fields[1]) > Len(names)
                    THEN Len(fields[1]) ELSE Len(names))

SplitRows(rows) == Eval([r \in DOMAIN rows |-> Split(rows[r], ",")])

RawRows(rows, hdr) ==
    IF Len(rows) <= hdr THEN [ok |-> FALSE, err |-> "ParserError"]
    ELSE RawTable(Split(rows[hdr + 1], ","), SplitRows(SubSeq(rows, hdr + 2, Len(rows))))

\* pd.read_csv(path, header=hdr, skiprows={hdr+1, hdr+2}): the raw fields.
\* skiprows counts lines of the file; header counts the rows left after the
\* skipped and the blank lines are dropped.
ReadCsvRaw(lines, hdr) == RawRows(KeptRows(lines, {hdr + 1, hdr + 2}, 1), hdr)

\* The DataFrame of a table of raw fields: [n, col], col a function of the
\* column names.  Column names are distinct in the inputs.
TypedTable(r) ==
    IF ~r.ok THEN [ok |-> FALSE, err |-> r.err]
    ELSE [ok |-> TRUE, err |-> "none",
          df |-> [n |-> r.n,
                  col |-> Eval([nm \in {r.names[j] : j \in DOMAIN r.names} |->
                                  InferColumn(r.raw[CHOOSE j \in DOMAIN r.names :
                                                        r.names[j] = nm])])]]

ReadCsv(lines, hdr) == TypedTable(ReadCsvRaw(lines, hdr))

\* DataFrame.rename(axis=1, mapper=lambda x: x.strip())
RenameStrip(df) ==
    [n |-> df.n,
     col |-> Eval([nm \in {Strip(o) : o \in DOMAIN df.col} |->
                     df.col[CHOOSE o \in DOMAIN df.col : Strip(o) = nm]])]

\* df[name] = column
SetCol(df, name, c) == [n |-> df.n, col |-> (name :> c) @@ df.col]

(***************************************************************************)
(* read_fp_data                                                            *)
(***************************************************************************)
IntColumns == <<"TILE", "DET_COL", "DET_ROW">>
StrColumns == <<"POL", "TYPE", "NIST_ROW", "SMUX_SN", "DET_ARR_SN">>
ReprColumns == <<"NYQ_SN">>
FloatColumns ==
    <<"SQ1_ICMAX", "DET_RES", "DC_SHT_GND_BP1", "DC_SHT_GND_BP2", "ANT_SHT_GND",
      "TES_INSP", "ANT_INSP", "PIX_PHYS_X", "PIX_PHYS_Y", "FWHM_MAJ", "FWHM_MIN",
      "R", "THETA", "ALPHA", "CHI", "EPSILON">>

\* A scan that keeps counting after a match: it ends on the last matching line.
RECURSIVE ScanHeaderLast(_, _)
ScanHeaderLast(lines, hdr) ==
    IF hdr >= Len(lines) THEN hdr
    ELSE IF Find(lines[hdr + 1], "GCP") >= 0
            /\ \A i \in (hdr + 2)..Len(lines) : Find(lines[i], "GCP") < 0
    THEN hdr
    ELSE ScanHeaderLast(lines, hdr + 1)

\* Lines 71-74: the number of lines before the first one containing "GCP".
RECURSIVE ScanHeader(_, _)
ScanHeader(lines, hdr) ==
    IF hdr >= Len(lines) THEN hdr
    ELSE IF Find(lines[hdr + 1], "GCP") >= 0 THEN hdr
    ELSE ScanHeader(lines, hdr + 1)

ParsedOrNaN(r) == IF r.ok THEN AsFloat(r.cell) ELSE NaN

\* pd.to_numeric(column, errors='coerce'), cell by cell.
ToNumericCell(c) == IF c.k = "str" THEN ParsedOrNaN(ParseNumber(c.s)) ELSE c

ToNumeric(c) == Eval([i \in DOMAIN c |-> ToNumericCell(c[i])])

\* Series.fillna(value=x)
FillNa(c, x) == Eval([i \in DOMAIN c |-> IF c[i].k = "nan" THEN NumCell(x * Scale) ELSE c[i]])

\* float -> int of astype: truncation toward zero.
Trunc(x) == IF x >= 0 THEN x \div Scale ELSE -((-x) \div Scale)

\* Series.astype(int) is refused for a column holding NaN or an infinity.
CanAstypeInt(c) == \A i \in DOMAIN c : c[i].k \in {"int", "num"}

AstypeInt(c) ==
    Eval([i \in DOMAIN c |-> IF c[i].k = "num" THEN IntCell(Trunc(c[i].v)) ELSE c[i]])

\* Series.str.strip(): missing cells stay missing.
StrStrip(c) ==
    Eval([i \in DOMAIN c |-> IF c[i].k = "str" THEN StrCell(Strip(c[i].s)) ELSE c[i]])

AstypeStr(c) == Eval([i \in DOMAIN c |-> StrCell(CellToStr(c[i]))])

Raised(e) == [ok |-> FALSE, err |-> e]
Returned(df) == [ok |-> TRUE, err |-> "none", df |-> df]

\* An integer coercion that leaves missing values in place.
CoerceIntColumnUnfilled(c) ==
    With(ToNumeric(c),
         LAMBDA t : IF \A i \in DOMAIN t : t[i].k \in {"int", "num", "nan"}
                    THEN Returned(AstypeInt(t))
                    ELSE Raised("ValueError"))

\* Lines 89-91, one column.
CoerceIntColumn(c) ==
    With(FillNa(ToNumeric(c), -1),
         LAMBDA filled : IF CanAstypeInt(filled) THEN Returned(AstypeInt(filled))
                         ELSE Raised("ValueError"))

\* Lines 95, one column.
StripStrColumn(c) ==
    IF IsObjectColumn(c) THEN Returned(StrStrip(c)) ELSE Raised("AttributeError")

\* Line 99, one column.
ReprColumn(c) == Returned(AstypeStr(c))

\* A float coercion that borrows the integer columns' fillna(-1).
CoerceFloatColumnFilled(c) == Returned(FillNa(ToNumeric(c), -1))

\* Line 108, one column.
CoerceFloatColumn(c) == Returned(ToNumeric(c))

\* The passes of lines 88-108 in the order the code makes them: the column
\* and the kind of pass.
Passes ==
    [i \in 1..Len(IntColumns) |-> [column |-> IntColumns[i], kind |-> "int"]]
    \o [i \in 1..Len(StrColumns) |-> [column |-> StrColumns[i], kind |-> "str"]]
    \o [i \in 1..Len(ReprColumns) |-> [column |-> ReprColumns[i], kind |-> "repr"]]
    \o [i \in 1..Len(FloatColumns) |-> [column |-> FloatColumns[i], kind |-> "float"]]

\* One pass on a column that exists.
PassOn(kind, c) ==
    CASE kind = "int" -> CoerceIntColumn(c)
      [] kind = "str" -> StripStrColumn(c)
      [] kind = "repr" -> ReprColumn(c)
      [] kind = "float" -> CoerceFloatColumn(c)

\* The passes from the i-th on; the first exception ends them.  fp_data[column]
\* of a column the table lacks is KeyError.
RECURSIVE ApplyPasses(_, _)
ApplyPasses(df, i) ==
    IF i > Len(Passes) THEN Returned(df)
    ELSE IF Passes[i].column \notin DOMAIN df.col THEN Raised("KeyError")
    ELSE With(PassOn(Passes[i].kind, df.col[Passes[i].column]),
              LAMBDA r : IF ~r.ok THEN r
                         ELSE ApplyPasses(SetCol(df, Passes[i].column, r.df), i + 1))

\* Lines 81-111.
Normalise(df) == ApplyPasses(RenameStrip(df), 1)

\* Lines 77-111: csv is what read_csv returned for the header found.
ParseAndNormalise(datafile, path, hdr, csv) ==
    IF ~csv.ok
    THEN [ok |-> FALSE, err |-> csv.err, opened |-> <<path, path>>, header |-> hdr,
          out |-> <<>>]
    ELSE With(Normalise(csv.df),
              LAMBDA res :
                 IF res.ok
                 THEN [ok |-> TRUE, err |-> "none", opened |-> <<path, path>>,
                       header |-> hdr,
                       out |-> <<[file |-> datafile, lines |-> csv.df.n]>>, df |-> res.df]
                 ELSE [ok |-> FALSE, err |-> res.err, opened |-> <<path, path>>,
                       header |-> hdr,
                       out |-> <<[file |-> datafile, lines |-> csv.df.n]>>])

ScanAndParse(datafile, path, lines, hdr) ==
    ParseAndNormalise(datafile, path, hdr, ReadCsv(lines, hdr))

\* A read_fp_data that returns an empty table for a file that is not there.
ReadFpDataMissingOk(datafile, path, fsys) ==
    IF path \notin DOMAIN fsys
    THEN [ok |-> TRUE, err |-> "none", opened |-> <<path>>, header |-> -1, out |-> <<>>,
          df |-> [n |-> 0, col |-> <<>>]]
    ELSE ScanAndParse(datafile, path, fsys[path].lines, ScanHeader(fsys[path].lines, 0))

ReadFpDataAt(datafile, path, fsys) ==
    IF path \notin DOMAIN fsys
    THEN [ok |-> FALSE, err |-> "IOError", opened |-> <<path>>, header |-> -1, out |-> <<>>]
    ELSE ScanAndParse(datafile, path, fsys[path].lines, ScanHeader(fsys[path].lines, 0))

\* read_fp_data(datafile, filedir) on file system fsys.  opened: the paths
\* opened, in order; out: what was printed (the arguments of the format);
\* header: the local of that name.
ReadFpData(datafile, filedir, fsys) == ReadFpDataAt(datafile, PathJoin(filedir, datafile), fsys)

(***************************************************************************)
(* read_tag: the tag, the master index, the per-receiver loop, the         *)
(* concatenation.                                                          *)
(***************************************************************************)
NoAttrs == <<>>

HasAttr(o, name) == name \in DOMAIN o

\* o.name = v
SetAttr(o, name, v) == (name :> v) @@ o

\* The attributes lines 42-46 assign, in order.
TagAttrs == <<"year", "month", "day", "scanset", "dk">>

\* A parse that assigns whatever the conversions give and never raises.
AssignAll(o, f) ==
    [ok |-> TRUE, obj |-> [a \in {TagAttrs[i] : i \in 1..Len(TagAttrs)} |->
                             f[CHOOSE i \in 1..Len(TagAttrs) : TagAttrs[i] = a].val] @@ o]

\* The assignments of lines 42-46 with right-hand sides f, made in order up
\* to the first conversion that raised (ValueError).
AssignUntilRaise(o, f) ==
    With(IF \A i \in 1..Len(TagAttrs) : f[i].ok THEN Len(TagAttrs) + 1
         ELSE CHOOSE i \in 1..Len(TagAttrs) : ~f[i].ok /\ \A j \in 1..(i - 1) : f[j].ok,
         LAMBDA n :
            [ok |-> n > Len(TagAttrs),
             obj |-> [a \in {TagAttrs[i] : i \in 1..(n - 1)} |->
                        f[CHOOSE i \in 1..Len(TagAttrs) : TagAttrs[i] = a].val] @@ o])

\* Lines 35-46 of read_tag.
ParseTagFields(o, t, p) ==
    AssignUntilRaise(
        SetAttr(SetAttr(o, "tag", t), "tagdir", IF p.isNone THEN t ELSE p.v),
        <<IntOf(Slice(t, 0, 4)), IntOf(Slice(t, 4, 6)), IntOf(Slice(t, 6, 8)),
          [ok |-> TRUE, val |-> Slice(t, 8, 11)], IntOf(Slice(t, 14, 17))>>)

\* comment='#': the rest of a line from the first "#" on is dropped.
UncommentAt(line, p) == IF p < 0 THEN line ELSE Slice(line, 0, p)

Uncomment(line) == UncommentAt(line, Find(line, "#"))

MasterRow(text) == IF IsBlank(text) THEN <<>> ELSE <<Split(text, ",")>>

RECURSIVE MasterRows(_, _)
MasterRows(lines, i) ==
    IF i > Len(lines) THEN <<>>
    ELSE MasterRow(Uncomment(lines[i])) \o MasterRows(lines, i + 1)

MasterColumn(rows, j) ==
    InferColumn(Eval([r \in DOMAIN rows |-> IF j <= Len(rows[r]) THEN rows[r][j] ELSE ""]))

MasterTable(files, drums) ==
    Eval([r \in DOMAIN files |-> [fp_data |-> files[r], drum |-> drums[r]]])

MasterFrame(rows) == MasterTable(MasterColumn(rows, 1), MasterColumn(rows, 2))

\* Lines 53-54: pd.read_csv(path, comment='#', names=['fp_data', 'drum']) as a
\* sequence of rows.  A row with one field has a missing drum.  Rows have at
\* most two fields in the inputs.
ReadMasterCsv(lines) == MasterFrame(MasterRows(lines, 1))

\* np.float(drum): a str is parsed, anything else is already a number.
NpFloat(c) ==
    IF c.k = "str"
    THEN With(ParseNumber(c.s), LAMBDA r : [ok |-> r.ok, cell |-> AsFloat(r.cell)])
    ELSE [ok |-> TRUE, cell |-> AsFloat(c)]

\* x - y of two float64.
FloatSubF(x, y) ==
    CASE x.k = "nan" \/ y.k = "nan" -> NaN
      [] x.k = "inf" /\ y.k = "inf" -> (IF x.v = y.v THEN NaN ELSE x)
      [] x.k = "inf" -> x
      [] y.k = "inf" -> InfCell(-y.v)
      [] OTHER -> NumCell(x.v - y.v)

\* a - b in float64.
FloatSub(a, b) == FloatSubF(AsFloat(a), AsFloat(b))

\* a + b in float64.
FloatAdd(a, b) == FloatSubF(AsFloat(a), [AsFloat(b) EXCEPT !.v = -@])

Broadcast(n, c) == [i \in 1..n |-> c]

\* A loop body that adds the drum angle.
DerivedFieldsAdded(df, drum, rx) ==
    SetCol(SetCol(SetCol(df, "DRUM_ANGLE", Broadcast(df.n, drum)),
                  "THETA", Eval([i \in 1..df.n |-> FloatAdd(df.col["THETA"][i], drum)])),
           "RX", Broadcast(df.n, IntCell(rx)))

\* A loop body that numbers the receivers from 1.
DerivedFieldsOneBased(df, drum, rx) ==
    SetCol(SetCol(SetCol(df, "DRUM_ANGLE", Broadcast(df.n, drum)),
                  "THETA", Eval([i \in 1..df.n |-> FloatSub(df.col["THETA"][i], drum)])),
           "RX", Broadcast(df.n, IntCell(rx + 1)))

\* Lines 58-60, drum already a float.
DerivedFields(df, drum, rx) ==
    SetCol(SetCol(SetCol(df, "DRUM_ANGLE", Broadcast(df.n, drum)),
                  "THETA", Eval([i \in 1..df.n |-> FloatSub(df.col["THETA"][i], drum)])),
           "RX", Broadcast(df.n, IntCell(rx)))

\* A column of a concatenation: int64 cells widen when floats join them.
UnifyColumn(c) ==
    IF (\E i \in DOMAIN c : c[i].k \in {"num", "nan", "inf"})
       /\ (\A i \in DOMAIN c : c[i].k # "str")
    THEN Eval([i \in DOMAIN c |-> AsFloat(c[i])])
    ELSE c

RECURSIVE ConcatColumn(_, _, _)
ConcatColumn(dfs, name, i) ==
    IF i > Len(dfs) THEN <<>>
    ELSE (IF name \in DOMAIN dfs[i].col THEN dfs[i].col[name] ELSE Broadcast(dfs[i].n, NaN))
         \o ConcatColumn(dfs, name, i + 1)

RECURSIVE SumRows(_, _)
SumRows(dfs, i) == IF i > Len(dfs) THEN 0 ELSE dfs[i].n + SumRows(dfs, i + 1)

\* A concatenation that puts the latest table first.
ConcatReversed(dfs) ==
    [n |-> SumRows(dfs, 1),
     col |-> Eval([name \in UNION {DOMAIN dfs[i].col : i \in DOMAIN dfs} |->
                     UnifyColumn(ConcatColumn([i \in DOMAIN dfs |-> dfs[Len(dfs) + 1 - i]],
                                              name, 1))])]

\* pd.concat(dfs, ignore_index=True) of a non-empty list: the rows of the
\* tables in list order under a fresh index, over the union of the columns.
Concat(dfs) ==
    [n |-> SumRows(dfs, 1),
     col |-> Eval([name \in UNION {DOMAIN dfs[i].col : i \in DOMAIN dfs} |->
                     UnifyColumn(ConcatColumn(dfs, name, 1))])]

(***************************************************************************)
(* The constructor KeckTod(tag, prefix), step by step.                     *)
(***************************************************************************)
Raise(e) == pc' = "failed" /\ err' = e

\* Lines 25-29: __init__ calls read_tag unless tag is None.
Construct ==
    /\ pc = "init"
    /\ pc' = IF tag.isNone THEN "done" ELSE "read_tag"
    /\ UNCHANGED <<tag, prefix, fs, self, fp_master, fp_data, opened, header, stdout, err>>

\* Lines 35-46.
ParseTag ==
    /\ pc = "read_tag"
    /\ \E r \in {ParseTagFields(self, tag.v, prefix)} :
          /\ self' = r.obj
          /\ IF r.ok THEN pc' = "open_tod" /\ err' = err ELSE Raise("ValueError")
    /\ UNCHANGED <<tag, prefix, fs, fp_master, fp_data, opened, header, stdout>>

\* Lines 49-50.
OpenTod ==
    /\ pc = "open_tod"
    /\ \E todfile \in {PathJoin(self["tagdir"], tag.v \o "_tod.mat")} :
          /\ opened' = Append(opened, todfile)
          /\ IF todfile \in DOMAIN fs /\ fs[todfile].hdf5
             THEN /\ self' = SetAttr(self, "tod", [file |-> todfile, mode |-> "r"])
                  /\ pc' = "read_master"
                  /\ err' = err
             ELSE /\ self' = self
                  /\ Raise("IOError")
    /\ UNCHANGED <<tag, prefix, fs, fp_master, fp_data, header, stdout>>

\* Lines 53-55.
ReadMaster ==
    /\ pc = "read_master"
    /\ \E path \in {PathJoin(self["tagdir"], "fp_data_master")} :
          /\ opened' = Append(opened, path)
          /\ IF path \in DOMAIN fs
             THEN /\ fp_master' = ReadMasterCsv(fs[path].lines)
                  /\ fp_data' = <<>>
                  /\ pc' = "loop"
                  /\ err' = err
             ELSE /\ UNCHANGED <<fp_master, fp_data>>
                  /\ Raise("IOError")
    /\ UNCHANGED <<tag, prefix, fs, self, header, stdout>>

\* Lines 56-60: one pass of the loop, for receiver rx = len(fp_data).
LoadReceiver ==
    /\ pc = "loop"
    /\ Len(fp_data) < Len(fp_master)
    /\ IF fp_master[Len(fp_data) + 1].fp_data.k # "str"
       THEN /\ Raise("TypeError")
            /\ UNCHANGED <<fp_data, opened, header, stdout>>
       ELSE \E r \in {ReadFpData(fp_master[Len(fp_data) + 1].fp_data.s, self["tagdir"], fs)},
               drum \in {NpFloat(fp_master[Len(fp_data) + 1].drum)} :
               /\ opened' = opened \o r.opened
               /\ stdout' = stdout \o r.out
               /\ header' = r.header
               /\ IF ~r.ok
                  THEN fp_data' = fp_data /\ Raise(r.err)
                  ELSE IF ~drum.ok
                  THEN fp_data' = Append(fp_data, r.df) /\ Raise("ValueError")
                  ELSE /\ fp_data' = Append(fp_data,
                                            DerivedFields(r.df, drum.cell, Len(fp_data)))
                       /\ pc' = "loop"
                       /\ err' = err
    /\ UNCHANGED <<tag, prefix, fs, self, fp_master>>

\* A concatenation step that publishes an empty table for an empty list.
ConcatTablesEmptyOk ==
    /\ pc = "loop"
    /\ Len(fp_data) = Len(fp_master)
    /\ self' = SetAttr(self, "fp_data",
                       IF Len(fp_data) = 0 THEN [n |-> 0, col |-> <<>>] ELSE Concat(fp_data))
    /\ pc' = "done"
    /\ UNCHANGED <<tag, prefix, fs, fp_master, fp_data, opened, header, stdout, err>>

\* Line 61: pd.concat of an empty list raises ValueError.
ConcatTables ==
    /\ pc = "loop"
    /\ Len(fp_data) = Len(fp_master)
    /\ IF Len(fp_data) = 0
       THEN self' = self /\ Raise("ValueError")
       ELSE /\ self' = SetAttr(self, "fp_data", Concat(fp_data))
            /\ pc' = "done"
            /\ err' = err
    /\ UNCHANGED <<tag, prefix, fs, fp_master, fp_data, opened, header, stdout>>

Next == Construct \/ ParseTag \/ OpenTod \/ ReadMaster \/ LoadReceiver \/ ConcatTables

(***************************************************************************)
(* Inputs.                                                                 *)
(***************************************************************************)
SeqsUpTo(S, n) == UNION {[1..k -> S] : k \in 0..n}

TextFile(lines) == [hdf5 |-> FALSE, lines |-> lines]
Hdf5File == [hdf5 |-> TRUE, lines |-> <<>>]

\* A file system holding, under directory dir, the sample file of tag t (tod:
\* "ok", "text" for a file that is no HDF5 container, or "missing"), the
\* master index (None: no such file) and the metadata files.
MakeFs(dir, t, tod, master, files) ==
    [p \in {PathJoin(dir, f) : f \in DOMAIN files} |->
        TextFile(files[CHOOSE f \in DOMAIN files : PathJoin(dir, f) = p])]
    @@ (IF master.isNone THEN <<>>
        ELSE PathJoin(dir, "fp_data_master") :> TextFile(master.v))
    @@ (IF tod = "missing" THEN <<>>
        ELSE PathJoin(dir, t \o "_tod.mat")
             :> (IF tod = "ok" THEN Hdf5File ELSE TextFile(<<"x">>)))

Start(in) ==
    /\ tag = in.tag
    /\ prefix = in.prefix
    /\ fs = in.fs
    /\ self = NoAttrs
    /\ fp_master = <<>>
    /\ fp_data = <<>>
    /\ opened = <<>>
    /\ header = -1
    /\ stdout = <<>>
    /\ pc = "init"
    /\ err = "none"

GoodTag == "20150614C06_dk023"

HeaderLine ==
    " GCP, TILE, DET_COL, DET_ROW, POL, TYPE, NIST_ROW, SMUX_SN, DET_ARR_SN, NYQ_SN,"
    \o " SQ1_ICMAX, DET_RES, DC_SHT_GND_BP1, DC_SHT_GND_BP2, ANT_SHT_GND, TES_INSP,"
    \o " ANT_INSP, PIX_PHYS_X, PIX_PHYS_Y, FWHM_MAJ, FWHM_MIN, R, THETA, ALPHA, CHI,"
    \o " EPSILON"

UnitsLine == "-,-,-,-,-,-,-,-,-,-,uA,ohm,-,-,-,-,-,mm,mm,deg,deg,deg,deg,deg,deg,-"
FormatLine == "int,int,int,int,string,string,string,string,string,string,float"

\* One data line: the fields named vary, the rest are fixed.
DataLine(tile, det_col, pol, nyq, sq1, r, theta) ==
    "0," \o tile \o "," \o det_col \o ",2," \o pol \o ",L,r1,sm1,da1," \o nyq \o ","
    \o sq1 \o ",0.05,NaN,NaN,1,1,1,-3.5,4.25,0.5,0.5," \o r \o "," \o theta \o ",0,0,0.01"

PlainRow == DataLine("3", "1", " A ", "7", "1.5", "2.0", "10.0")

MetaFile(pre, rows) == pre \o <<HeaderLine, UnitsLine, FormatLine>> \o rows

Fn1(f, x) == [g \in {f} |-> x]
Fn2(f, x, g, y) == [h \in {f, g} |-> IF h = f THEN x ELSE y]

(***************************************************************************)
(* Spec: loads of one good tag over varied master indexes and receivers,   *)
(* together with the loads that cannot start or cannot find their files.   *)
(***************************************************************************)
MasterLines ==
    {"# receivers", "fp_a.csv,0.0", "fp_b.csv, 5.0", "fp_a.csv,2.5", "fp_a.csv",
     "fp_b.csv,abc"}

ThetaRow(theta) == DataLine("3", "1", " A ", "7", "1.5", "2.0", theta)

\* A header without the THETA column.
ShortHeaderLine ==
    Slice(HeaderLine, 0, Len(HeaderLine) - Len(", THETA, ALPHA, CHI, EPSILON"))

\* A data line for the header without THETA and the columns after it.
ShortRow == Slice(PlainRow, 0, Len(PlainRow) - Len(",10.0,0,0,0.01"))

\* The receivers' files: for fp_a.csv and, where there is one, fp_b.csv.
FilesA1 == MetaFile(<<"# rx0">>, <<ThetaRow("10.0")>>)
FilesA2 == MetaFile(<<>>, <<ThetaRow("10.0"), ThetaRow("")>>)
FilesB1 == MetaFile(<<>>, <<ThetaRow("10.0")>>)
FilesB2 == MetaFile(<<"# rx1", "# second">>, <<ThetaRow("-2.25"), ThetaRow("bad")>>)

ReceiverFiles ==
    {Fn2("fp_a.csv", FilesA1, "fp_b.csv", FilesB1),
     Fn2("fp_a.csv", FilesA2, "fp_b.csv", FilesB2),
     Fn2("fp_a.csv", MetaFile(<<>>, <<>>), "fp_b.csv", FilesB1),
     Fn2("fp_a.csv", FilesA1,
         "fp_b.csv", <<ShortHeaderLine, UnitsLine, FormatLine, ShortRow>>),
     Fn2("fp_a.csv", FilesA2,
         "fp_b.csv", <<ShortHeaderLine, UnitsLine, FormatLine, PlainRow>>),
     Fn1("fp_a.csv", FilesA1)}

LoadInputs ==
    {[tag |-> Some(GoodTag), prefix |-> None,
      fs |-> MakeFs(GoodTag, GoodTag, "ok", Some(m), files)] :
        m \in SeqsUpTo(MasterLines, MaxRx), files \in ReceiverFiles}
    \cup
    {[tag |-> Some(GoodTag), prefix |-> p,
      fs |-> MakeFs(IF p.isNone THEN GoodTag ELSE p.v, GoodTag, tod, m,
                    Fn1("fp_a.csv", MetaFile(<<>>, <<PlainRow>>)))] :
        p \in {None, Some("data"), Some("/keck/")},
        tod \in {"ok", "text", "missing"},
        m \in {None, Some(<<>>), Some(<<"fp_a.csv,0.0">>)}}
    \cup
    {[tag |-> t, prefix |-> None, fs |-> MakeFs(GoodTag, GoodTag, "ok", None, <<>>)] :
        t \in {None, Some("2015061"), Some(GoodTag)}}

Init == \E in \in LoadInputs : Start(in)

Spec == Init /\ [][Next]_vars

(***************************************************************************)
(* SpecTag: the constructor over varied tag strings.  A tag is made of     *)
(* sample fields and cut at every length.                                  *)
(***************************************************************************)
YearFields == {"2015", "20a5", " 201", "-201"}
MonthFields == {"06", "1x", "1 "}
DayFields == {"14", "+4"}
ScansetFields == {"C06", "D11"}
MidFields == {"_dk", "999"}
DkFields == {"023", " 23", "0 3", "113"}
TailFields == {"", "_x"}

FullTags ==
    {y \o m \o d \o sc \o mid \o dk \o tl :
        y \in YearFields, m \in MonthFields, d \in DayFields, sc \in ScansetFields,
        mid \in MidFields, dk \in DkFields, tl \in TailFields}

TagSamples == {Slice(t, 0, n) : t \in FullTags, n \in 0..19}

TagInputs ==
    {[tag |-> Some(t), prefix |-> p,
      fs |-> MakeFs(IF p.isNone THEN t ELSE p.v, t, "ok", Some(<<"fp_a.csv,0.0">>),
                    Fn1("fp_a.csv", MetaFile(<<>>, <<PlainRow>>)))] :
        t \in TagSamples, p \in {None, Some("data")}}

InitTag == \E in \in TagInputs : Start(in)

SpecTag == InitTag /\ [][Next]_vars

(***************************************************************************)
(* SpecFile: loads of one receiver over varied metadata files.             *)
(***************************************************************************)
PreLines == {"# Keck focal plane", "", "frame: GCP"}

RowSamples ==
    {PlainRow,
     DataLine("", "NaN", "B", "7.5", "bad", "nan", ""),
     DataLine("7", "x", " A", "", "2.0", "-0.5", "bad"),
     DataLine("inf", "1", "A ", "7", "1.5", "2.0", "1.5"),
     DataLine("2.7", "-2.5", "", "n1", "NA", "inf", "-2.25")}

ScanLines == {"GCP", "x,GCP y", "GC", "gcp", ""}

\* The examples of the description: integer fields "3", "", "NaN", "7" and
\* float fields "1.5", "bad", "2.0".
ExampleFiles ==
    {MetaFile(<<>>, <<DataLine("3", "3", "A", "7", "1.5", "1.5", "1.5"),
                      DataLine("", "", "A", "7", "bad", "bad", "bad"),
                      DataLine("NaN", "NaN", "A", "7", "2.0", "2.0", "2.0"),
                      DataLine("7", "7", "A", "7", "2.0", "2.0", "2.0")>>)}

\* Files with a header row: lines before it, data rows after it.
MetaFiles ==
    {MetaFile(pre, <<PlainRow>>) : pre \in SeqsUpTo(PreLines, MaxPre)}
    \cup {MetaFile(<<>>, rows) : rows \in SeqsUpTo(RowSamples, MaxRows)}
    \cup ExampleFiles

FileInputs ==
    {[tag |-> Some(GoodTag), prefix |-> Some("data"),
      fs |-> MakeFs("data", GoodTag, "ok", Some(<<"fp_a.csv," \o drum>>),
                    Fn1("fp_a.csv", f))] :
        f \in MetaFiles, drum \in {" 5.0", ""}}
    \cup
    {[tag |-> Some(GoodTag), prefix |-> Some("data"),
      fs |-> MakeFs("data", GoodTag, "ok", Some(<<"fp_a.csv,0.0">>), Fn1("fp_a.csv", f))] :
        f \in SeqsUpTo(ScanLines, MaxScan)}

InitFile == \E in \in FileInputs : Start(in)

SpecFile == InitFile /\ [][Next]_vars

(***************************************************************************)
(* Properties: what they speak of, read off the inputs and the state.     *)
(***************************************************************************)
TagDir == IF prefix.isNone THEN tag.v ELSE prefix.v
TodPath == PathJoin(TagDir, tag.v \o "_tod.mat")
MasterPath == PathJoin(TagDir, "fp_data_master")

\* The metadata file of the i-th row of the master index (i from 1).
RxPath(i) == PathJoin(TagDir, fp_master[i].fp_data.s)
RxLines(i) == fs[RxPath(i)].lines

HasGCP(line) == \E i \in 1..(Len(line) - 2) : SubSeq(line, i, i + 2) = "GCP"

\* The raw text fields of that file below its header row, by column name.
RawByName(r) ==
    [c \in {Strip(r.names[j]) : j \in DOMAIN r.names} |->
        r.raw[CHOOSE j \in DOMAIN r.names : Strip(r.names[j]) = c]]

RawColumns(i) == RawByName(ReadCsvRaw(RxLines(i), ScanHeader(RxLines(i), 0)))

RawColumn(i, c) == RawColumns(i)[c]

IsInfText(x) == \E w \in InfWords : Strip(x) \in {w, "-" \o w, "+" \o w}
IsNumericText(x) == x \notin NaValues /\ ParseNumber(x).ok
NumericValue(x) == AsFloat(ParseNumber(x).cell)

SeqToSet(q) == {q[i] : i \in DOMAIN q}

\* The drum angle of the i-th row of the master index.
DrumOf(i) == NpFloat(fp_master[i].drum).cell

\* The rows of the merged table before those of receiver i.
RowsBefore(i) == SumRows(SubSeq(fp_data, 1, i - 1), 1)

Loaded == pc = "done" /\ HasAttr(self, "fp_data")

\* Two cells hold the same value (an int64 cell may have widened to float64).
SameValue(a, b) == IF a.k = "str" \/ b.k = "str" THEN a = b ELSE AsFloat(a) = AsFloat(b)

(***************************************************************************)
(* C1.  For a tag of at least 17 characters with decimal digits at offsets *)
(* 0-3, 4-5, 6-7 and 14-16, read_tag sets year, month, day and dk to the   *)
(* decimal values of those digits and scanset to the characters at offsets *)
(* 8-10; the five fields are a function of those characters alone.         *)
(***************************************************************************)
NumericOffsets == {0, 1, 2, 3, 4, 5, 6, 7, 14, 15, 16}

TagDigit(i) == DigitVal(CharAt(tag.v, i))

WellFormedTag ==
    /\ ~tag.isNone
    /\ Len(tag.v) >= 17
    /\ \A i \in NumericOffsets : CharAt(tag.v, i) \in Digits

C1_TagFields ==
    (WellFormedTag /\ pc \notin {"init", "read_tag"}) =>
        /\ \A a \in SeqToSet(TagAttrs) : HasAttr(self, a)
        /\ self["year"] = 1000 * TagDigit(0) + 100 * TagDigit(1) + 10 * TagDigit(2) + TagDigit(3)
        /\ self["month"] = 10 * TagDigit(4) + TagDigit(5)
        /\ self["day"] = 10 * TagDigit(6) + TagDigit(7)
        /\ self["scanset"] = CharAt(tag.v, 8) \o CharAt(tag.v, 9) \o CharAt(tag.v, 10)
        /\ self["dk"] = 100 * TagDigit(14) + 10 * TagDigit(15) + TagDigit(16)

C1_Witness ==
    /\ tag = Some("20150614C06_dk023")
    /\ HasAttr(self, "dk")
    /\ self["year"] = 2015 /\ self["month"] = 6 /\ self["day"] = 14
    /\ self["scanset"] = "C06" /\ self["dk"] = 23

(***************************************************************************)
(* C2, as stated: a tag shorter than 17 characters, or with a character    *)
(* that is no decimal digit at a numeric offset, makes read_tag fail with  *)
(* ValueError before any file is opened.                                   *)
(***************************************************************************)
ParseFailed ==
    /\ pc = "failed" /\ err = "ValueError"
    /\ opened = <<>>
    /\ ~HasAttr(self, "dk") /\ ~HasAttr(self, "tod") /\ ~HasAttr(self, "fp_data")

LastOpenedLines == fs[opened[Len(opened)]].lines

C3_HeaderOffset ==
    header >= 0 =>
        /\ header <= Len(LastOpenedLines)
        /\ \A i \in 1..header : ~HasGCP(LastOpenedLines[i])
        /\ header < Len(LastOpenedLines) => HasGCP(LastOpenedLines[header + 1])

C3_Witness ==
    /\ header = 1
    /\ Len(LastOpenedLines) = 3
    /\ HasGCP(LastOpenedLines[2]) /\ HasGCP(LastOpenedLines[3])

(***************************************************************************)
(* C4, amended: in every table read_fp_data returns, and in the merged     *)
(* table, every cell of TILE, DET_COL and DET_ROW is an integer, and it is *)
(* -1 where the field was missing or no number; the coercion fails only on *)
(* a column holding an infinity.                                           *)
(***************************************************************************)
IntCastFailed == pc = "failed" /\ err = "ValueError" /\ Len(stdout) = Len(fp_data) + 1

C4_IntCoercion ==
    /\ \A i \in DOMAIN fp_data : \E raw \in {RawColumns(i)} :
          \A c \in SeqToSet(IntColumns) : \A j \in 1..fp_data[i].n :
             /\ fp_data[i].col[c][j].k = "int"
             /\ ~IsNumericText(raw[c][j]) => fp_data[i].col[c][j].v = -1
    /\ HasAttr(self, "fp_data") =>
          \A c \in SeqToSet(IntColumns) : \A j \in 1..self["fp_data"].n :
             self["fp_data"].col[c][j].k = "int"
    /\ IntCastFailed =>
          \E raw \in {RawColumns(Len(fp_data) + 1)} :
             \E c \in SeqToSet(IntColumns) \cap DOMAIN raw :
                \E j \in DOMAIN raw[c] : IsInfText(raw[c][j])

C4_Witness ==
    /\ Loaded
    /\ RawColumn(1, "TILE") = <<"3", "", "NaN", "7">>
    /\ self["fp_data"].col["TILE"] = <<IntCell(3), IntCell(-1), IntCell(-1), IntCell(7)>>

(***************************************************************************)
(* C4, as stated: the above, and the coercion never fails on any value.    *)
(***************************************************************************)
C4_Original == C4_IntCoercion /\ ~IntCastFailed

(***************************************************************************)
(* C5.  In every table read_fp_data returns, a cell of a float column      *)
(* holds the number its field denotes, and the missing marker where the    *)
(* field was missing or no number; in the merged table a missing THETA is  *)
(* still missing after the drum angle was subtracted.                      *)
(***************************************************************************)
C5_FloatCoercion ==
    \A i \in DOMAIN fp_data : \E raw \in {RawColumns(i)} :
       \A c \in SeqToSet(FloatColumns) : \A j \in 1..fp_data[i].n :
          IF IsNumericText(raw[c][j])
          THEN c # "THETA" => AsFloat(fp_data[i].col[c][j]) = NumericValue(raw[c][j])
          ELSE /\ fp_data[i].col[c][j] = NaN
               /\ Loaded => self["fp_data"].col[c][RowsBefore(i) + j] = NaN

C5_Witness ==
    /\ Loaded
    /\ RawColumn(1, "THETA") = <<"1.5", "bad", "2.0", "2.0">>
    /\ self["fp_data"].col["R"] = <<NumCell(150), NaN, NumCell(200), NumCell(200)>>
    /\ self["fp_data"].col["THETA"] = <<NumCell(-350), NaN, NumCell(-300), NumCell(-300)>>

(***************************************************************************)
(* C6.  In the table of receiver i, and in its rows of the merged table,   *)
(* THETA is the coerced THETA of the file minus the drum angle of row i of *)
(* the master index, subtracted once; the loop changes no other column of  *)
(* what read_fp_data returned.                                             *)
(***************************************************************************)
ExpectedTheta(x, drum) ==
    IF ~IsNumericText(x) \/ drum.k = "nan" THEN NaN
    ELSE NumCell(NumericValue(x).v - drum.v)

\* What read_fp_data returned for receiver i.
PreTable(i) == ReadFpData(fp_master[i].fp_data.s, TagDir, fs).df

\* The loop body has run on the i-th table.
Derived(i) == i \in DOMAIN fp_data /\ "RX" \in DOMAIN fp_data[i].col

C6_ThetaAdjusted ==
    \A i \in DOMAIN fp_data : Derived(i) =>
          /\ \E raw \in {RawColumn(i, "THETA")} :
                \A j \in 1..fp_data[i].n :
                   /\ fp_data[i].col["THETA"][j] = ExpectedTheta(raw[j], DrumOf(i))
                   /\ Loaded => self["fp_data"].col["THETA"][RowsBefore(i) + j]
                                    = ExpectedTheta(raw[j], DrumOf(i))
          /\ \E pre \in {PreTable(i)} :
                /\ DOMAIN fp_data[i].col = DOMAIN pre.col \cup {"DRUM_ANGLE", "RX"}
                /\ \A c \in DOMAIN pre.col \ {"THETA"} : fp_data[i].col[c] = pre.col[c]

C6_Witness ==
    /\ Loaded
    /\ fs[MasterPath].lines = <<"fp_a.csv,2.5", "fp_a.csv,0.0">>
    /\ RawColumn(1, "THETA") = <<"10.0">>
    /\ self["fp_data"].col["THETA"] = <<NumCell(750), NumCell(1000)>>

(***************************************************************************)
(* C7.  Every row of the table of receiver i carries RX = i, counted from  *)
(* 0 over the rows of the master index that are not comments, and          *)
(* DRUM_ANGLE = the drum angle of that row of the master index.            *)
(***************************************************************************)
IsMasterRow(line) == line # "" /\ SubSeq(line, 1, 1) # "#"
MasterTextRows == SelectSeq(fs[MasterPath].lines, IsMasterRow)

ExpectedDrum(i) ==
    LET line == MasterTextRows[i]
        k == Find(line, ",")
    IN IF k >= 0 /\ IsNumericText(Slice(line, k + 1, Len(line)))
       THEN NumericValue(Slice(line, k + 1, Len(line)))
       ELSE NaN

C7_ReceiverTags ==
    /\ pc \in {"loop", "done"} /\ ~tag.isNone => Len(fp_master) = Len(MasterTextRows)
    /\ \A i \in DOMAIN fp_data : Derived(i) =>
          \A j \in 1..fp_data[i].n :
             /\ fp_data[i].col["RX"][j] = IntCell(i - 1)
             /\ fp_data[i].col["DRUM_ANGLE"][j] = ExpectedDrum(i)
    /\ Loaded =>
          \A i \in DOMAIN fp_data : \A j \in 1..fp_data[i].n :
             /\ self["fp_data"].col["RX"][RowsBefore(i) + j] = IntCell(i - 1)
             /\ self["fp_data"].col["DRUM_ANGLE"][RowsBefore(i) + j] = ExpectedDrum(i)

C7_Witness ==
    /\ Loaded
    /\ fs[MasterPath].lines = <<"# receivers", "fp_b.csv, 5.0">>
    /\ self["fp_data"].n >= 1
    /\ \A j \in 1..self["fp_data"].n :
          /\ self["fp_data"].col["RX"][j] = IntCell(0)
          /\ self["fp_data"].col["DRUM_ANGLE"][j] = NumCell(500)

(***************************************************************************)
(* C8.  The merged table is the per-receiver tables one after another in   *)
(* the order of the master index: its rows are numbered without gaps from  *)
(* the first to the N-th, N the sum of the receivers' row counts, and row  *)
(* j of receiver i is row (rows of receivers before i) + j, unchanged.     *)
(***************************************************************************)
RECURSIVE TotalRows(_)
TotalRows(i) == IF i = 0 THEN 0 ELSE fp_data[i].n + TotalRows(i - 1)

C8_MergedTable ==
    Loaded =>
        /\ self["fp_data"].n = TotalRows(Len(fp_data))
        /\ DOMAIN self["fp_data"].col = DOMAIN fp_data[1].col
        /\ \A c \in DOMAIN self["fp_data"].col :
              /\ DOMAIN self["fp_data"].col[c] = 1..self["fp_data"].n
              /\ \A i \in DOMAIN fp_data : \A j \in 1..fp_data[i].n :
                    SameValue(self["fp_data"].col[c][TotalRows(i - 1) + j],
                              fp_data[i].col[c][j])

C8_Witness ==
    /\ Loaded
    /\ fs[MasterPath].lines = <<"fp_a.csv,0.0", "fp_b.csv, 5.0">>
    /\ RawColumn(1, "THETA") = <<"10.0">> /\ RawColumn(2, "THETA") = <<"10.0">>
    /\ self["fp_data"].n = 2
    /\ self["fp_data"].col["THETA"] = <<NumCell(1000), NumCell(500)>>
    /\ self["fp_data"].col["RX"] = <<IntCell(0), IntCell(1)>>
    /\ self["fp_data"].col["DRUM_ANGLE"] = <<NumCell(0), NumCell(500)>>

(***************************************************************************)
(* C9, amended: a load opens the time-ordered data file, then the master   *)
(* index, then the receivers' files in the order of the index, and stops   *)
(* at the first error: no file after the one that failed is read and       *)
(* fp_data is never set.  A master index that is missing, and a receiver   *)
(* file that is missing or lacks an expected column, fail the load at that *)
(* step.  fp_data is set only after every receiver was read.               *)
(***************************************************************************)
RECURSIVE RxOpens(_)
RxOpens(i) == IF i > Len(fp_master) THEN <<>> ELSE <<RxPath(i), RxPath(i)>> \o RxOpens(i + 1)

ExpectedOpens == <<TodPath, MasterPath>> \o RxOpens(1)

ExpectedColumns ==
    SeqToSet(IntColumns) \cup SeqToSet(StrColumns) \cup SeqToSet(ReprColumns)
    \cup SeqToSet(FloatColumns)

LacksColumn(lines) ==
    \E c \in ExpectedColumns : \A k \in DOMAIN lines : ~Contains(lines[k], c)

C9_LoadOrder ==
    /\ tag.isNone => opened = <<>>
    /\ opened # <<>> =>
          /\ Len(opened) <= Len(ExpectedOpens)
          /\ opened = SubSeq(ExpectedOpens, 1, Len(opened))
          /\ Len(opened) <= 2 + 2 * Min(Len(fp_data) + 1, Len(fp_master))
          /\ TodPath \notin DOMAIN fs => Len(opened) = 1 /\ pc = "failed"
          /\ MasterPath \notin DOMAIN fs => Len(opened) <= 2 /\ pc \notin {"loop", "done"}
          /\ \A i \in DOMAIN fp_master :
                (RxPath(i) \notin DOMAIN fs \/ LacksColumn(RxLines(i))) =>
                    /\ Len(fp_data) < i
                    /\ Len(opened) <= 2 * i + 2
                    /\ pc # "done"
    /\ pc = "failed" => ~ENABLED Next /\ ~HasAttr(self, "fp_data")
    /\ HasAttr(self, "fp_data") =>
          /\ pc = "done"
          /\ Len(fp_data) = Len(fp_master)
          /\ opened = ExpectedOpens

C9_Witness ==
    /\ pc = "failed" /\ err = "KeyError"
    /\ Len(fp_master) = 2 /\ Len(fp_data) = 0
    /\ LacksColumn(RxLines(1)) /\ RxPath(2) # RxPath(1)
    /\ opened = <<TodPath, MasterPath, RxPath(1), RxPath(1)>>
    /\ ~HasAttr(self, "fp_data")

(***************************************************************************)
(* C9, as stated: the above, and a master index that lacks an expected     *)
(* column fails the load where it is read.                                 *)
(***************************************************************************)
MasterLacksColumn ==
    /\ ~tag.isNone
    /\ MasterPath \in DOMAIN fs
    /\ \E i \in DOMAIN MasterTextRows : ~Contains(MasterTextRows[i], ",")

C9_Original == C9_LoadOrder /\ (MasterLacksColumn => pc \notin {"loop", "done"})

(***************************************************************************)
(* C10.  A master index without receivers makes the load fail at the       *)
(* concatenation with ValueError, after the tag fields and tod were set    *)
(* and with fp_data unset; a load that succeeded had at least one          *)
(* receiver.                                                               *)
(***************************************************************************)
ZeroReceivers == ~tag.isNone /\ MasterPath \in DOMAIN fs /\ MasterTextRows = <<>>

C10_ZeroReceivers ==
    /\ HasAttr(self, "fp_data") => Len(MasterTextRows) >= 1 /\ Len(fp_data) >= 1
    /\ (ZeroReceivers /\ Len(opened) = 2) =>
          /\ pc \in {"loop", "failed"}
          /\ pc = "loop" => ENABLED ConcatTables /\ ~ENABLED LoadReceiver
          /\ pc = "failed" => err = "ValueError"
          /\ fp_data = <<>> /\ stdout = <<>>
          /\ \A a \in SeqToSet(TagAttrs) \cup {"tag", "tagdir", "tod"} : HasAttr(self, a)
          /\ ~HasAttr(self, "fp_data")

C10_Witness ==
    /\ pc = "failed" /\ err = "ValueError"
    /\ HasAttr(self, "tod") /\ self["dk"] = 23
    /\ opened = <<TodPath, MasterPath>>
    /\ fs[MasterPath].lines = <<"# receivers">>
    /\ ~HasAttr(self, "fp_data")

====
